---- MODULE Spec2Model ----
(***************************************************************************)
(* Model of src/src/quantumCircuit.py: the QuantumCircuit class (qubit     *)
(* allocator, gate builders, Toffoli / MCX lowering, dependency analysis,  *)
(* QASM export and import).                                                *)
(*                                                                         *)
(* A circuit object is the record [n_qubits, gates]; every method is an    *)
(* operator from the object (and its arguments) to the object after the    *)
(* call, and every public method is one action on the circuit under        *)
(* construction.  A raised exception is the value of err after the call.   *)
(*                                                                         *)
(* Python runs with assert statements enabled (no -O), so a failed assert  *)
(* raises.  pyzx, which from_qasm uses to parse the text, is outside the   *)
(* repository: parse_line and parse_qasm model it from the text format.    *)
(***************************************************************************)
EXTENDS Integers, Sequences, FiniteSets, TLC

\* Bounds of the model.
MaxQubits == 3      \* qubits allocated, and the indices 0 .. MaxQubits-1 passed
MaxGates == 1       \* builders are called on circuits of fewer gates than this
MaxControls == 3    \* longest control list handed to add_mcx

VARIABLES
    n_qubits,   \* self.n_qubits
    gates,      \* self.gates
    op,         \* name of the last method called
    args,       \* its arguments
    ret,        \* its return value
    err,        \* the exception it raised, "none" if it returned normally
    pre,        \* the circuit object as it was when the last call started
    returned    \* the values returned by request_qubit, in call order

vars == <<n_qubits, gates, op, args, ret, err, pre, returned>>

\* Qubit indices a caller may pass: valid ones and, while fewer than
\* MaxQubits qubits are allocated, indices outside 0 .. n_qubits-1.
Idx == 0 .. (MaxQubits - 1)

None == "none"
DuplicateQubit == "duplicate-qubit"
UnsupportedArity == "unsupported-arity"
UnsupportedGate == "unsupported-gate"
IndexError == "index-error"

self == [n_qubits |-> n_qubits, gates |-> gates]

----------------------------------------------------------------------------
\* Gate records (the dicts appended to self.gates).

XRec(t) == [name |-> "X", target |-> t]
HRec(t) == [name |-> "HAD", target |-> t]
SRec(t) == [name |-> "S", target |-> t]
TRec(t) == [name |-> "T", target |-> t]
TdgRec(t) == [name |-> "Tdg", target |-> t]
CnotRec(c, t) == [name |-> "CNOT", ctrl |-> c, target |-> t]
TofRec(c1, c2, t) == [name |-> "Tof", ctrl1 |-> c1, ctrl2 |-> c2, target |-> t]

RecognizedKinds == {"X", "HAD", "S", "T", "Tdg", "CNOT", "Tof"}
SingleKinds == {"X", "HAD", "S", "T", "Tdg"}

\* Gate records a caller may hand to add_gate or deps_of: every record of a
\* recognized kind over Idx, and records of the kind "Z", which the exporter
\* does not know.
GateRecords ==
    {[name |-> k, target |-> t] : k \in SingleKinds \cup {"Z"}, t \in Idx}
        \cup {CnotRec(c, t) : c \in Idx, t \in Idx}
        \cup {TofRec(c1, c2, t) : c1 \in Idx, c2 \in Idx, t \in Idx}

----------------------------------------------------------------------------
\* Results of a method that can raise.

Ok(c) == [self |-> c, err |-> None]
Raise(c, e) == [self |-> c, err |-> e]

\* is_unique comparing neighbours only.
is_unique_adjacent(lst) == \A i \in 1 .. (Len(lst) - 1) : lst[i] # lst[i + 1]

is_unique(lst) == Len(lst) = Cardinality({lst[i] : i \in DOMAIN lst})

EmptyCircuit == [n_qubits |-> 0, gates |-> <<>>]

append(c, g) == [c EXCEPT !.gates = Append(@, g)]

\* request_qubit returning the count after the increment.
request_qubit_after(c) ==
    [self |-> [c EXCEPT !.n_qubits = @ + 1], ret |-> c.n_qubits + 1]

request_qubit(c) ==
    [self |-> [c EXCEPT !.n_qubits = @ + 1], ret |-> (c.n_qubits + 1) - 1]

RECURSIVE request_qubits(_, _)
request_qubits(c, n) ==
    IF n <= 0 THEN [self |-> c, ret |-> <<>>]
    ELSE LET head == request_qubits(c, n - 1)
             last == request_qubit(head.self)
         IN  [self |-> last.self, ret |-> Append(head.ret, last.ret)]

add_x(c, target) == append(c, XRec(target))
add_h(c, target) == append(c, HRec(target))
add_s(c, target) == append(c, SRec(target))
add_t(c, target) == append(c, TRec(target))
add_tdg(c, target) == append(c, TdgRec(target))

add_gate(c, gate) == append(c, gate)

add_cnot(c, ctrl, target, p) ==
    LET s1 == IF p THEN add_x(c, ctrl) ELSE c
        s2 == append(s1, CnotRec(ctrl, target))
    IN  IF p THEN add_x(s2, ctrl) ELSE s2

add_cz(c, ctrl, target) ==
    add_h(append(add_h(c, target), CnotRec(ctrl, target)), target)

add_z(c, target) ==
    add_h(append(add_h(c, target), XRec(target)), target)

\* The clean branch with its closing S on the second control.
clean_toffoli_s_on_c2(c, c1, c2, target) ==
    LET g1 == add_h(c, target)
        g2 == add_t(g1, target)
        g3 == add_cnot(g2, c1, target, FALSE)
        g4 == add_cnot(g3, c2, target, FALSE)
        g5 == add_cnot(g4, target, c2, FALSE)
        g6 == add_cnot(g5, target, c1, FALSE)
        g7 == add_tdg(g6, c1)
        g8 == add_tdg(g7, c2)
        g9 == add_t(g8, target)
        g10 == add_cnot(g9, target, c1, FALSE)
        g11 == add_cnot(g10, target, c2, FALSE)
        g12 == add_h(g11, target)
    IN  add_s(g12, c2)

\* The 13-gate relative-phase Toffoli of the clean branch.
clean_toffoli(c, c1, c2, target) ==
    LET g1 == add_h(c, target)
        g2 == add_t(g1, target)
        g3 == add_cnot(g2, c1, target, FALSE)
        g4 == add_cnot(g3, c2, target, FALSE)
        g5 == add_cnot(g4, target, c2, FALSE)
        g6 == add_cnot(g5, target, c1, FALSE)
        g7 == add_tdg(g6, c1)
        g8 == add_tdg(g7, c2)
        g9 == add_t(g8, target)
        g10 == add_cnot(g9, target, c1, FALSE)
        g11 == add_cnot(g10, target, c2, FALSE)
        g12 == add_h(g11, target)
    IN  add_s(g12, c1)

\* add_toffoli undoing the polarity X gates in reverse order.
add_toffoli_reverse_undo(c, c1, c2, target, p1, p2, clean) ==
    IF ~is_unique(<<c1, c2, target>>) THEN Raise(c, DuplicateQubit)
    ELSE LET s1 == IF p1 THEN add_x(c, c1) ELSE c
             s2 == IF p2 THEN add_x(s1, c2) ELSE s1
             s3 == IF clean THEN clean_toffoli(s2, c1, c2, target)
                   ELSE append(s2, TofRec(c1, c2, target))
             s4 == IF p2 THEN add_x(s3, c2) ELSE s3
             s5 == IF p1 THEN add_x(s4, c1) ELSE s4
         IN  Ok(s5)

add_toffoli(c, c1, c2, target, p1, p2, clean) ==
    IF ~is_unique(<<c1, c2, target>>) THEN Raise(c, DuplicateQubit)
    ELSE LET s1 == IF p1 THEN add_x(c, c1) ELSE c
             s2 == IF p2 THEN add_x(s1, c2) ELSE s1
             s3 == IF clean THEN clean_toffoli(s2, c1, c2, target)
                   ELSE append(s2, TofRec(c1, c2, target))
             s4 == IF p1 THEN add_x(s3, c1) ELSE s3
             s5 == IF p2 THEN add_x(s4, c2) ELSE s4
         IN  Ok(s5)

\* add_mcx asserting len(cs) <= 3.
add_mcx_three(c, cs, target, ps, clean) ==
    IF ~(Len(cs) <= 3) THEN Raise(c, UnsupportedArity)
    ELSE IF Len(cs) = 1 THEN
        IF Len(ps) < 1 THEN Raise(c, IndexError)
        ELSE Ok(add_cnot(c, cs[1], target, ps[1]))
    ELSE IF Len(cs) = 2 THEN
        IF Len(ps) < 2 THEN Raise(c, IndexError)
        ELSE add_toffoli(c, cs[1], cs[2], target, ps[1], ps[2], clean)
    ELSE Ok(c)

\* ps[0] / ps[1] on a list that is too short raises IndexError while the
\* arguments of the delegated call are evaluated, before any gate is added.
add_mcx(c, cs, target, ps, clean) ==
    IF ~(Len(cs) <= 2) THEN Raise(c, UnsupportedArity)
    ELSE IF Len(cs) = 1 THEN
        IF Len(ps) < 1 THEN Raise(c, IndexError)
        ELSE Ok(add_cnot(c, cs[1], target, ps[1]))
    ELSE IF Len(cs) = 2 THEN
        IF Len(ps) < 2 THEN Raise(c, IndexError)
        ELSE add_toffoli(c, cs[1], cs[2], target, ps[1], ps[2], clean)
    ELSE Ok(c)

\* deps_of leaving out the second control of a Toffoli.
deps_of_no_ctrl2(gate) ==
    IF gate.name = "CNOT" THEN {gate.ctrl} \cup {gate.target}
    ELSE IF gate.name = "Tof" THEN {gate.ctrl1} \cup {gate.target}
    ELSE {gate.target}

deps_of(gate) ==
    IF gate.name = "CNOT" THEN {gate.ctrl} \cup {gate.target}
    ELSE IF gate.name = "Tof" THEN {gate.ctrl1} \cup {gate.ctrl2} \cup {gate.target}
    ELSE {gate.target}

num_t(c) == Cardinality({i \in DOMAIN c.gates : c.gates[i].name \in {"T", "Tdg"}})

num_gates(c) == Len(c.gates)

----------------------------------------------------------------------------
\* QASM text: a sequence of lines.  A line is its leading word and the
\* indices between the brackets of its q[..] operands, in order.

Line(word, qs) == [word |-> word, qs |-> qs]

Header(n) ==
    << Line("OPENQASM 2.0;", <<>>),
       Line("include \"qelib1.inc\";", <<>>),
       Line("qreg", <<n>>) >>

Known(gate) == gate.name \in RecognizedKinds

gate_line(gate) ==
    IF gate.name = "Tof" THEN Line("ccx", <<gate.ctrl1, gate.ctrl2, gate.target>>)
    ELSE IF gate.name = "CNOT" THEN Line("cx", <<gate.ctrl, gate.target>>)
    ELSE IF gate.name = "X" THEN Line("x", <<gate.target>>)
    ELSE IF gate.name = "HAD" THEN Line("h", <<gate.target>>)
    ELSE IF gate.name = "S" THEN Line("s", <<gate.target>>)
    ELSE IF gate.name = "T" THEN Line("t", <<gate.target>>)
    ELSE Line("tdg", <<gate.target>>)

\* to_qasm without run_zx: the header, then one line per gate; the first
\* gate of an unknown kind raises NotImplementedError.
to_qasm(c) ==
    IF \E i \in DOMAIN c.gates : ~Known(c.gates[i])
    THEN [ret |-> <<>>, err |-> UnsupportedGate]
    ELSE [ret |-> Header(c.n_qubits) \o [i \in DOMAIN c.gates |-> gate_line(c.gates[i])],
          err |-> None]

\* zx.Circuit.from_qasm: the register size and one parsed gate object per
\* instruction line, with the attribute names from_qasm reads.
parse_line(l) ==
    IF l.word = "ccx" THEN [name |-> "Tof", ctrl1 |-> l.qs[1], ctrl2 |-> l.qs[2], target |-> l.qs[3]]
    ELSE IF l.word = "cx" THEN [name |-> "CNOT", control |-> l.qs[1], target |-> l.qs[2]]
    ELSE IF l.word = "cz" THEN [name |-> "CZ", control |-> l.qs[1], target |-> l.qs[2]]
    ELSE IF l.word = "z" THEN [name |-> "Z", target |-> l.qs[1]]
    ELSE IF l.word = "x" THEN [name |-> "X", target |-> l.qs[1]]
    ELSE IF l.word = "h" THEN [name |-> "HAD", target |-> l.qs[1]]
    ELSE IF l.word = "s" THEN [name |-> "S", target |-> l.qs[1]]
    ELSE IF l.word = "t" THEN [name |-> "T", target |-> l.qs[1]]
    ELSE IF l.word = "tdg" THEN [name |-> "Tdg", target |-> l.qs[1]]
    ELSE [name |-> "Y", target |-> l.qs[1]]

parse_qasm(text) ==
    [qubits |-> text[3].qs[1],
     gates |-> [i \in 1 .. (Len(text) - 3) |-> parse_line(text[i + 3])]]

\* One iteration of the replay loop of from_qasm.
replay_gate(c, gate) ==
    IF gate.name = "Tof" THEN
        add_toffoli(c, gate.ctrl1, gate.ctrl2, gate.target, FALSE, FALSE, FALSE)
    ELSE IF gate.name = "CNOT" THEN Ok(add_cnot(c, gate.control, gate.target, FALSE))
    ELSE IF gate.name = "CZ" THEN Ok(add_cz(c, gate.control, gate.target))
    ELSE IF gate.name = "Z" THEN Ok(add_z(c, gate.target))
    ELSE IF gate.name = "X" THEN Ok(add_x(c, gate.target))
    ELSE IF gate.name = "HAD" THEN Ok(add_h(c, gate.target))
    ELSE IF gate.name = "S" THEN Ok(add_s(c, gate.target))
    ELSE IF gate.name = "T" THEN Ok(add_t(c, gate.target))
    ELSE IF gate.name = "Tdg" THEN Ok(add_tdg(c, gate.target))
    ELSE Raise(c, UnsupportedGate)

RECURSIVE replay(_, _, _)
replay(c, qgates, i) ==
    IF i > Len(qgates) THEN Ok(c)
    ELSE LET r == replay_gate(c, qgates[i])
         IN  IF r.err # None THEN r ELSE replay(r.self, qgates, i + 1)

\* from_qasm: the circuit it returns, or the exception it raises (the
\* circuit under construction is then dropped).
from_qasm(text) ==
    LET qc == parse_qasm(text)
        circuit == request_qubits(EmptyCircuit, qc.qubits).self
        r == replay(circuit, qc.gates, 1)
    IN  IF r.err # None THEN [ret |-> EmptyCircuit, err |-> r.err]
        ELSE [ret |-> r.self, err |-> None]

\* Texts not produced by to_qasm that a caller may import.
SampleTexts ==
    { Header(2) \o << Line("cz", <<0, 1>>), Line("z", <<1>>) >>,
      Header(1) \o << Line("h", <<0>>), Line("y", <<0>>) >> }

----------------------------------------------------------------------------
Init ==
    /\ n_qubits = 0
    /\ gates = <<>>
    /\ op = "init"
    /\ args = <<>>
    /\ ret = <<>>
    /\ err = None
    /\ pre = EmptyCircuit
    /\ returned = <<>>

\* The effect of a call on the circuit under construction.
Call(name, a, c, r, e) ==
    /\ n_qubits' = c.n_qubits
    /\ gates' = c.gates
    /\ op' = name
    /\ args' = a
    /\ ret' = r
    /\ err' = e
    /\ pre' = self

Builder(name, a, res) ==
    /\ Call(name, a, res.self, <<>>, res.err)
    /\ UNCHANGED returned

\* A run is one script: it allocates and builds, then analyses or exports
\* (the build-then-export pipeline), and an exception that is raised ends
\* it.  Builders and deps_of are called while the circuit is short, the
\* allocator while it is at most one gate longer.
Running == err = None
Building == Running /\ op \notin {"deps_of", "to_qasm", "from_qasm"}
CanBuild == Building /\ Len(gates) < MaxGates
CanAllocate == Building /\ Len(gates) <= MaxGates

RequestQubit ==
    /\ CanAllocate
    /\ n_qubits < MaxQubits
    /\ LET r == request_qubit(self)
       IN  /\ Call("request_qubit", <<>>, r.self, r.ret, None)
           /\ returned' = Append(returned, r.ret)

RequestQubits ==
    /\ CanAllocate
    /\ \E n \in 0 .. (MaxQubits - n_qubits) :
        LET r == request_qubits(self, n)
        IN  /\ Call("request_qubits", <<n>>, r.self, r.ret, None)
            /\ returned' = returned \o r.ret

AddX == CanBuild /\ \E t \in Idx : Builder("add_x", <<t>>, Ok(add_x(self, t)))
AddH == CanBuild /\ \E t \in Idx : Builder("add_h", <<t>>, Ok(add_h(self, t)))
AddS == CanBuild /\ \E t \in Idx : Builder("add_s", <<t>>, Ok(add_s(self, t)))
AddT == CanBuild /\ \E t \in Idx : Builder("add_t", <<t>>, Ok(add_t(self, t)))
AddTdg == CanBuild /\ \E t \in Idx : Builder("add_tdg", <<t>>, Ok(add_tdg(self, t)))
AddZ == CanBuild /\ \E t \in Idx : Builder("add_z", <<t>>, Ok(add_z(self, t)))

AddCnot ==
    /\ CanBuild
    /\ \E c \in Idx, t \in Idx, p \in BOOLEAN :
        Builder("add_cnot", <<c, t, p>>, Ok(add_cnot(self, c, t, p)))

AddCz ==
    /\ CanBuild
    /\ \E c \in Idx, t \in Idx :
        Builder("add_cz", <<c, t>>, Ok(add_cz(self, c, t)))

AddToffoli ==
    /\ CanBuild
    /\ \E c1 \in Idx, c2 \in Idx, t \in Idx, p1 \in BOOLEAN, p2 \in BOOLEAN, clean \in BOOLEAN :
        Builder("add_toffoli", <<c1, c2, t, p1, p2, clean>>,
                add_toffoli(self, c1, c2, t, p1, p2, clean))

\* Control lists: every list of at most two indices (the lengths whose
\* entries add_mcx reads), and two lists of each greater length.
ControlLists ==
    UNION {[1 .. k -> Idx] : k \in 0 .. 2}
        \cup {[i \in 1 .. k |-> 0] : k \in 3 .. MaxControls}
        \cup {[i \in 1 .. k |-> (i - 1) % MaxQubits] : k \in 3 .. MaxControls}
PolarityLists == {<<>>, <<TRUE, FALSE>>}

\* With no control add_mcx reads neither target nor clean: one value of each.
McxArgs ==
    {a \in ControlLists \X Idx \X PolarityLists \X BOOLEAN :
        Len(a[1]) = 0 => (a[2] = 0 /\ ~a[4])}

AddMcx ==
    /\ CanBuild
    /\ \E a \in McxArgs : Builder("add_mcx", a, add_mcx(self, a[1], a[2], a[3], a[4]))

AddGate ==
    /\ CanBuild
    /\ \E g \in GateRecords : Builder("add_gate", <<g>>, Ok(add_gate(self, g)))

DepsOf ==
    /\ CanBuild
    /\ \E g \in GateRecords :
        /\ Call("deps_of", <<g>>, self, deps_of(g), None)
        /\ UNCHANGED returned

ToQasm ==
    /\ Building
    /\ LET r == to_qasm(self) IN Call("to_qasm", <<>>, self, r.ret, r.err)
    /\ UNCHANGED returned

\* from_qasm is static: it is handed the text just exported (the round
\* trip) or a sample text, and builds a circuit of its own.
FromQasm ==
    /\ \E text \in (IF op = "to_qasm" /\ Running THEN {ret} ELSE {})
                    \cup (IF CanBuild THEN SampleTexts ELSE {}) :
        LET r == from_qasm(text) IN Call("from_qasm", <<text>>, self, r.ret, r.err)
    /\ UNCHANGED returned

Next ==
    \/ RequestQubit
    \/ RequestQubits
    \/ AddX
    \/ AddH
    \/ AddS
    \/ AddT
    \/ AddTdg
    \/ AddZ
    \/ AddCnot
    \/ AddCz
    \/ AddToffoli
    \/ AddMcx
    \/ AddGate
    \/ DepsOf
    \/ ToQasm
    \/ FromQasm

Spec == Init /\ [][Next]_vars

----------------------------------------------------------------------------
\* Vocabulary of the properties.

\* The gates after those that were there when the last call started.
Appended == SubSeq(gates, Len(pre.gates) + 1, Len(gates))
CircuitUnchanged == gates = pre.gates /\ n_qubits = pre.n_qubits

PairwiseDistinct(a, b, c) == a # b /\ a # c /\ b # c

\* The relative-phase Toffoli sequence as the specification lists it.
RelativePhaseToffoli(c1, c2, t) ==
    << [name |-> "HAD", target |-> t],
       [name |-> "T", target |-> t],
       [name |-> "CNOT", ctrl |-> c1, target |-> t],
       [name |-> "CNOT", ctrl |-> c2, target |-> t],
       [name |-> "CNOT", ctrl |-> t, target |-> c2],
       [name |-> "CNOT", ctrl |-> t, target |-> c1],
       [name |-> "Tdg", target |-> c1],
       [name |-> "Tdg", target |-> c2],
       [name |-> "T", target |-> t],
       [name |-> "CNOT", ctrl |-> t, target |-> c1],
       [name |-> "CNOT", ctrl |-> t, target |-> c2],
       [name |-> "HAD", target |-> t],
       [name |-> "S", target |-> c1] >>

PolarityX(c1, c2, p1, p2) ==
    (IF p1 THEN << [name |-> "X", target |-> c1] >> ELSE <<>>)
        \o (IF p2 THEN << [name |-> "X", target |-> c2] >> ELSE <<>>)

\* The qubit indices a gate record carries.
QubitsOf(g) ==
    IF g.name = "Tof" THEN {g.ctrl1, g.ctrl2, g.target}
    ELSE IF g.name = "CNOT" THEN {g.ctrl, g.target}
    ELSE {g.target}

----------------------------------------------------------------------------
\* C1: the k-th request_qubit call returned k-1 and after n calls the count
\* is n; request_qubits(m) returns the next m indices in increasing order
\* and raises the count by m; no call lowers the count.
C1_AllocatorSequential ==
    /\ Len(returned) = n_qubits
    /\ \A k \in 1 .. Len(returned) : returned[k] = k - 1
    /\ op = "request_qubit" => ret = pre.n_qubits /\ n_qubits = pre.n_qubits + 1
    /\ op = "request_qubits" =>
        /\ n_qubits = pre.n_qubits + args[1]
        /\ Len(ret) = args[1]
        /\ \A i \in 1 .. args[1] : ret[i] = pre.n_qubits + i - 1
    /\ n_qubits >= pre.n_qubits

C1_Witness ==
    /\ op = "request_qubits"
    /\ args = <<2>>
    /\ pre.n_qubits = 1
    /\ ret = <<1, 2>>
    /\ gates # <<>>

\* C2: add_toffoli with two equal indices among c1, c2, target fails with
\* duplicate-qubit and changes neither the gate sequence nor the count.
C2_DuplicateToffoliRejected ==
    (op = "add_toffoli" /\ ~PairwiseDistinct(args[1], args[2], args[3])) =>
        (err = DuplicateQubit /\ CircuitUnchanged)

C2_Witness ==
    /\ op = "add_toffoli"
    /\ args[1] = args[3]
    /\ args[1] # args[2]
    /\ args[4]
    /\ err = DuplicateQubit

\* C3: a clean add_toffoli on distinct qubits without polarities appends
\* exactly the 13 listed gates, no Toffoli record, and adds 4 to the T-count.
C3_CleanToffoliSequence ==
    (op = "add_toffoli" /\ PairwiseDistinct(args[1], args[2], args[3])
        /\ ~args[4] /\ ~args[5] /\ args[6]) =>
        /\ err = None
        /\ gates = pre.gates \o RelativePhaseToffoli(args[1], args[2], args[3])
        /\ num_gates(self) = num_gates(pre) + 13
        /\ \A i \in DOMAIN Appended : Appended[i].name # "Tof"
        /\ num_t(self) = num_t(pre) + 4

C3_Witness ==
    /\ op = "add_toffoli"
    /\ args = <<1, 2, 0, FALSE, FALSE, TRUE>>
    /\ err = None
    /\ Len(gates) = Len(pre.gates) + 13

\* C4: add_toffoli on distinct qubits appends X(c1) if p1, X(c2) if p2, the
\* core (one Toffoli record, or the 13 gates when clean), then X(c1) if p1,
\* X(c2) if p2, and nothing else.
C4_ToffoliPolarityBracket ==
    (op = "add_toffoli" /\ PairwiseDistinct(args[1], args[2], args[3])) =>
        LET x == PolarityX(args[1], args[2], args[4], args[5])
            core == IF args[6] THEN RelativePhaseToffoli(args[1], args[2], args[3])
                    ELSE << [name |-> "Tof", ctrl1 |-> args[1], ctrl2 |-> args[2],
                             target |-> args[3]] >>
        IN  /\ err = None
            /\ gates = pre.gates \o x \o core \o x
            /\ n_qubits = pre.n_qubits
            /\ (args[4] /\ ~args[5] /\ ~args[6]) =>
                Appended = << [name |-> "X", target |-> args[1]],
                              [name |-> "Tof", ctrl1 |-> args[1], ctrl2 |-> args[2],
                               target |-> args[3]],
                              [name |-> "X", target |-> args[1]] >>

C4_Witness ==
    /\ op = "add_toffoli"
    /\ args[4] /\ args[5]
    /\ err = None
    /\ Len(Appended) = 5
    /\ Appended[4].target = args[1]

\* C5: add_mcx with more than two controls fails with unsupported-arity and
\* changes neither the gate sequence nor the count.
C5_McxArityRejected ==
    (op = "add_mcx" /\ Len(args[1]) > 2) =>
        (err = UnsupportedArity /\ CircuitUnchanged)

C5_Witness ==
    /\ op = "add_mcx"
    /\ Len(args[1]) = 3
    /\ args[3] # <<>>
    /\ err = UnsupportedArity

\* C6: add_mcx with an empty control list is rejected with
\* unsupported-arity and appends no gate.
C6_EmptyControlsRejected ==
    (op = "add_mcx" /\ Len(args[1]) = 0) =>
        (err = UnsupportedArity /\ CircuitUnchanged)

\* C7: a circuit of recognized gates exports to 3 + N lines (the header
\* with the register sized to the count, then one line per gate), and
\* importing that text gives the same count and the same gate records.
C7_ExportImportRoundTrip ==
    /\ (op = "to_qasm" /\ \A i \in DOMAIN gates : gates[i].name \in RecognizedKinds) =>
        /\ err = None
        /\ Len(ret) = 3 + Len(gates)
        /\ ret[3] = Line("qreg", <<n_qubits>>)
    /\ (op = "from_qasm" /\ to_qasm(self).err = None /\ args[1] = to_qasm(self).ret) =>
        /\ err = None
        /\ ret.n_qubits = n_qubits
        /\ ret.gates = gates

\* C8: every gate record of the circuit references only indices in
\* 0 .. n_qubits - 1.
C8_GateIndicesAllocated ==
    \A i \in DOMAIN gates : QubitsOf(gates[i]) \subseteq 0 .. (n_qubits - 1)

\* C9: deps_of returns {c1, c2, target} (3 elements) for a Toffoli record
\* on distinct qubits, {control, target} for a CNOT record, {target} (1
\* element) for a single-qubit record, and leaves the circuit as it was.
C9_DepsOfContent ==
    op = "deps_of" =>
        LET g == args[1] IN
        /\ (g.name = "Tof" /\ PairwiseDistinct(g.ctrl1, g.ctrl2, g.target)) =>
            (ret = {g.ctrl1, g.ctrl2, g.target} /\ Cardinality(ret) = 3)
        /\ g.name = "CNOT" => ret = {g.ctrl, g.target}
        /\ g.name \in SingleKinds => (ret = {g.target} /\ Cardinality(ret) = 1)
        /\ err = None
        /\ CircuitUnchanged

C9_Witness ==
    /\ op = "deps_of"
    /\ args[1].name = "Tof"
    /\ Cardinality(ret) = 3
    /\ n_qubits > 0

\* C10: every Toffoli record of the circuit has control1, control2 and
\* target pairwise distinct.
C10_ToffoliRecordsDistinct ==
    \A i \in DOMAIN gates :
        gates[i].name = "Tof" =>
            PairwiseDistinct(gates[i].ctrl1, gates[i].ctrl2, gates[i].target)

====
